---- MODULE Spec2Model ----
(***************************************************************************)
(* Model of the jobs worker of the cluster agent (package workers,         *)
(* JobsWorker): the metrics aggregation pass over the informer's store,    *)
(* the event queue with its flush worker, and the Observe lifecycle.       *)
(*                                                                         *)
(* Time is counted in ticks, TicksPerSecond ticks to a second, so that the *)
(* float64 durations of the code (seconds with a fraction) and their       *)
(* truncation by int64() are both represented.                             *)
(***************************************************************************)
EXTENDS Integers, Sequences, FiniteSets, Bags, TLC

\* ------------------------------------------------------------------ bounds
MaxJobs == 2
MaxPods == 1
MaxTime == 2
TicksPerSecond == 2
MaxItems == 2
MaxAdds == 2
MaxLimit == 2
MaxNotes == 1

\* ------------------------------------------------------- program constants
ALL == "all"

Namespaces == {"a", "b", ALL}
NoTime == -1
OptionalFields ==
  {"StartTime", "ActiveDeadlineSeconds", "Completions", "BackoffLimit", "Parallelism"}
MetricFields == {"JobCount", "ActiveCount", "SuccessCount", "FailedCount", "Duration"}

VARIABLES
  store,          \* informer.GetStore(): bag of the objects the cache holds
  SummaryMap,     \* pw.SummaryMap: key -> ClusterJobMetrics
  posted,         \* the AppDMetricList handed to PostMetrics by the last pass
  metricsBT,      \* trace token of the last pass: "none", "open", "closed"
  snapshotFresh,  \* TRUE while the store is the snapshot the last pass listed
  schemas,        \* the JobSchemas the last pass built from that snapshot
  panic,          \* where an unrecovered panic ended the process, or "none"
  \* the event queue (workqueue.RateLimitingInterface)
  queue,          \* items waiting, in order
  dirty,          \* items added and not yet handed out
  processing,     \* items handed out by Get and not yet Done
  failures,       \* items the rate limiter keeps retry state for
  shuttingDown,   \* ShutDown() was called
  \* the flush worker
  EventAPILimit,  \* Bag.EventAPILimit
  pcF,            \* "none", "idle", "drain", "got", "post", "exited"
  count,          \* flushQueue's count
  objList,        \* flushQueue's objList
  cur,            \* the item Get returned, while in getNextQueueItem
  tickN,          \* the queue length the current tick observed
  calls,          \* Event Sink calls of the current tick, in order
  serialized,     \* json.Marshal in the current tick: "none", "ok", "failed"
  flushBT,        \* trace token of the last tick: "none", "open", "closed"
  enq,            \* per item: times it entered the queue
  sent,           \* per item: batches handed to PostAppDEvents holding it
  dropped,        \* per item: batches dropped by a serialization failure
  \* the lifecycle
  informer,       \* pw.informer: "nil" or "created"
  pcObserve,      \* "notcalled", "syncing", "waiting", "returned", "panicked"
  watchTask,      \* informer.Run: "none", "running", "exited"
  metricsTask,    \* startMetricsWorker: "none", "running", "exited"
  synced,         \* informer.HasSynced()
  stopped,        \* stopCh is closed
  wg,             \* the WaitGroup's counter
  notes           \* notifications the informer has queued for the handlers

panicked == panic # "none"

aggVars == <<store, SummaryMap, posted, metricsBT, snapshotFresh, schemas>>
wqVars == <<queue, dirty, processing, failures, shuttingDown>>
ghostVars == <<enq, sent, dropped>>
flushVars == <<EventAPILimit, pcF, count, objList, cur, tickN, calls, serialized, flushBT>>
lifeVars == <<informer, pcObserve, watchTask, metricsTask, synced, stopped, wg, notes>>

\* --------------------------------------------------------------- objects
\* A batch Job as the pass reads it. absent: the optional pointer fields that
\* are nil. Times are ticks; completion = NoTime is a nil CompletionTime.
Job(ns, a, s, f, st, ct, ab) ==
  [kind |-> "Job", ns |-> ns, active |-> a, success |-> s, failed |-> f,
   start |-> st, completion |-> ct, absent |-> ab]

\* The objects the store is fed with: every namespace with every split of at
\* most MaxPods pods, every start/completion time, and every single absent
\* optional field, each varied on its own around a plain job.
CountedJobs ==
  {Job(ns, a, s, f, 0, 0, {}) :
     ns \in Namespaces,
     a \in 0..MaxPods, s \in 0..MaxPods, f \in 0..MaxPods}
TimedJobs ==
  {Job("a", 0, 0, 0, st, ct, {}) :
     st \in 0..MaxTime, ct \in {NoTime} \cup 0..MaxTime}
PartialJobs ==
  {Job("a", 1, 0, 0, 0, 0, {fld}) : fld \in OptionalFields}
Jobs ==
  {j \in CountedJobs : j.active + j.success + j.failed <= MaxPods}
    \cup {j \in TimedJobs : j.completion = NoTime \/ j.completion >= j.start}
    \cup PartialJobs

\* A *v1.Node, the type the informer was told to expect.
NodeObj == [kind |-> "Node"]

\* int64(x) of a float64 x = num/den: truncation toward zero.
Int64Of(num, den) ==
  IF num >= 0 THEN num \div den ELSE 0 - ((0 - num) \div den)

\* ------------------------------------------------------- processObject
\* The result of processObject(j) at time now: a nil StartTime panics at its
\* dereference, a nil spec field at its own; otherwise the JobSchema. Duration
\* is kept in ticks (the float64 seconds times TicksPerSecond).
processObjectPanics(j) == j.absent # {}

\* A variant that measures every job against the current time.
processObjectSinceNow(j, now) ==
  [Namespace |-> j.ns,
   Active |-> j.active,
   Success |-> j.success,
   Failed |-> j.failed,
   StartTime |-> j.start,
   EndTime |-> IF j.completion # NoTime THEN j.completion ELSE 0,
   Duration |-> now - j.start]

processObject(j, now) ==
  [Namespace |-> j.ns,
   Active |-> j.active,
   Success |-> j.success,
   Failed |-> j.failed,
   StartTime |-> j.start,
   EndTime |-> IF j.completion # NoTime THEN j.completion ELSE 0,
   Duration |-> IF j.completion # NoTime
                  THEN j.completion - j.start
                  ELSE now - j.start]

\* --------------------------------------------------------------- summarize
NewClusterJobMetrics(ns) ==
  [Namespace |-> ns, Path |-> ns, JobCount |-> 0, ActiveCount |-> 0,
   SuccessCount |-> 0, FailedCount |-> 0, Duration |-> 0]

\* summary.X += ... on a ClusterJobMetrics value
Folded(summary, rec) ==
  [summary EXCEPT
     !.JobCount = @ + 1,
     !.ActiveCount = @ + rec.Active,
     !.FailedCount = @ + rec.Failed,
     !.SuccessCount = @ + rec.Success,
     !.Duration = @ + Int64Of(rec.Duration, TicksPerSecond)]

\* m with m[k] = v
MapPut(m, k, v) == [x \in DOMAIN m \cup {k} |-> IF x = k THEN v ELSE m[x]]

\* A variant that stores the updated global summary back and forgets the
\* namespace one.
summarizeGlobalOnly(m, rec) ==
  LET m1 == IF ALL \in DOMAIN m THEN m ELSE MapPut(m, ALL, NewClusterJobMetrics(ALL))
      m2 == IF rec.Namespace \in DOMAIN m1
              THEN m1
              ELSE MapPut(m1, rec.Namespace, NewClusterJobMetrics(rec.Namespace))
  IN  MapPut(m2, ALL, Folded(m2[ALL], rec))

\* The map after summarize(rec). The map holds struct values: summary and
\* summaryNS are copies of the entries, the increments are made on the
\* copies, and the copies are never stored back.
summarize(m, rec) ==
  LET m1 == IF ALL \in DOMAIN m THEN m ELSE MapPut(m, ALL, NewClusterJobMetrics(ALL))
      m2 == IF rec.Namespace \in DOMAIN m1
              THEN m1
              ELSE MapPut(m1, rec.Namespace, NewClusterJobMetrics(rec.Namespace))
      summary == Folded(m2[ALL], rec)
      summaryNS == Folded(m2[rec.Namespace], rec)
  IN  m2

\* ------------------------------------------------- builAppDMetricsList
NewAppDMetric(name, val, path) ==
  [MetricName |-> name, MetricValue |-> val, MetricPath |-> <<path, name>>]

addMetricToList(metric) ==
  {NewAppDMetric(fld, metric[fld], metric.Path) : fld \in MetricFields}

builAppDMetricsList(m) ==
  UNION {addMetricToList(m[k]) : k \in DOMAIN m}

\* --------------------------------------------------------- buildAppDMetrics
\* A variant that keeps the map of the previous pass.
KeptSummaryMap(old) == old

\* pw.SummaryMap = make(map[string]m.ClusterJobMetrics)
FreshSummaryMap(old) == <<>>

\* The loop over GetStore().List(): objects are taken in some order until
\* none is left or one panics (an object that is no *batchTypes.Job at the
\* type assertion, or processObject).
RECURSIVE summarizeAll(_, _, _)
summarizeAll(m, objs, now) ==
  IF objs = EmptyBag
    THEN [panic |-> FALSE, map |-> m]
    ELSE LET obj == CHOOSE o \in BagToSet(objs) : TRUE
             rest == objs (-) SetToBag({obj})
         IN  IF obj.kind # "Job" \/ processObjectPanics(obj)
               THEN [panic |-> TRUE, map |-> m]
               ELSE summarizeAll(summarize(m, processObject(obj, now)), rest, now)

\* The JobSchema processObject builds for each object of the snapshot that it
\* does not panic on, with the object and the time it was built from.
schemasOf(objs, now) ==
  {[job |-> o, now |-> now, rec |-> processObject(o, now)] :
     o \in {x \in BagToSet(objs) : x.kind = "Job" /\ ~processObjectPanics(x)}}

buildAppDMetrics(now) ==
  LET r == summarizeAll(FreshSummaryMap(SummaryMap), store, now)
  IN  /\ SummaryMap' = r.map
      /\ snapshotFresh' = TRUE
      /\ schemas' = IF r.panic THEN {} ELSE schemasOf(store, now)
      /\ IF r.panic
           THEN /\ panic' = "buildAppDMetrics"
                /\ metricsBT' = "open"
                /\ UNCHANGED posted
           ELSE /\ posted' = builAppDMetricsList(r.map)
                /\ metricsBT' = "closed"
                /\ UNCHANGED panic
      /\ UNCHANGED <<store, wqVars, ghostVars, flushVars, lifeVars>>

\* ------------------------------------------------------------ the store
\* The cache adds or drops an object (list, watch, resync).
StoreAdd(obj) ==
  /\ ~panicked
  /\ BagCardinality(store) < MaxJobs
  /\ store' = store (+) SetToBag({obj})
  /\ snapshotFresh' = FALSE
  /\ schemas' = {}
  /\ UNCHANGED <<SummaryMap, posted, metricsBT, panic, wqVars, ghostVars, flushVars, lifeVars>>

StoreDelete(obj) ==
  /\ ~panicked
  /\ BagIn(obj, store)
  /\ store' = store (-) SetToBag({obj})
  /\ snapshotFresh' = FALSE
  /\ schemas' = {}
  /\ UNCHANGED <<SummaryMap, posted, metricsBT, panic, wqVars, ghostVars, flushVars, lifeVars>>

\* case <-ticker.C of appMetricTicker
MetricsTick ==
  /\ ~panicked
  /\ metricsTask = "running"
  /\ \E now \in 0..MaxTime : buildAppDMetrics(now)

\* ------------------------------------------------------------ the queue
Items == 1..MaxItems
Limits == {0 - 1} \cup 0..MaxLimit
NoItem == 0

RECURSIVE SumOf(_, _)
SumOf(f, S) ==
  IF S = {} THEN 0
  ELSE LET x == CHOOSE y \in S : TRUE IN f[x] + SumOf(f, S \ {x})

Range(seq) == {seq[k] : k \in 1..Len(seq)}
Occurrences(seq, x) == Cardinality({k \in 1..Len(seq) : seq[k] = x})
Bump(f, x) == [f EXCEPT ![x] = @ + 1]

\* workqueue Add: ignored while shutting down or while the item is already
\* dirty; an item being processed is only marked dirty, Done queues it.
WQAddAccepted(item) == ~shuttingDown /\ item \notin dirty
WQAddQueues(item) == WQAddAccepted(item) /\ item \notin processing

\* A producer adds an item, with AddRateLimited (limited) or with Add.
Add(item, limited) ==
  /\ ~panicked
  /\ SumOf(enq, Items) + Cardinality(dirty \ Range(queue)) < MaxAdds
  /\ failures' = IF limited THEN failures \cup {item} ELSE failures
  /\ dirty' = IF WQAddAccepted(item) THEN dirty \cup {item} ELSE dirty
  /\ queue' = IF WQAddQueues(item) THEN Append(queue, item) ELSE queue
  /\ enq' = IF WQAddQueues(item) THEN Bump(enq, item) ELSE enq
  /\ UNCHANGED <<processing, shuttingDown, sent, dropped, aggVars, flushVars,
                 lifeVars, panic>>

\* Another holder of the exported WQ takes the head item and marks it Done.
ExternalGet ==
  /\ ~panicked
  /\ queue # <<>>
  /\ queue' = Tail(queue)
  /\ dirty' = dirty \ {Head(queue)}
  /\ UNCHANGED <<processing, failures, shuttingDown, ghostVars, aggVars,
                 flushVars, lifeVars, panic>>

\* ------------------------------------------------------------ flushQueue
\* case <-ticker.C of eventQueueTicker: flushQueue up to its first Get. An
\* empty queue returns at once, before StopBT.
FlushTick ==
  /\ ~panicked
  /\ pcF = "idle"
  /\ flushBT' = "open"
  /\ count' = Len(queue)
  /\ tickN' = Len(queue)
  /\ objList' = <<>>
  /\ calls' = <<>>
  /\ serialized' = "none"
  /\ pcF' = IF Len(queue) = 0 THEN "idle" ELSE "drain"
  /\ UNCHANGED <<EventAPILimit, cur, wqVars, ghostVars, aggVars, lifeVars, panic>>

\* getNextQueueItem up to the return of WQ.Get(). Get blocks on an empty
\* queue that is not shutting down; on an empty queue that is, it returns
\* (nil, true) and the type assertion on the nil item panics.
FlushGet ==
  /\ ~panicked
  /\ pcF = "drain"
  /\ queue # <<>> \/ shuttingDown
  /\ IF queue = <<>>
       THEN /\ panic' = "getNextQueueItem"
            /\ UNCHANGED <<wqVars, cur, pcF>>
       ELSE /\ queue' = Tail(queue)
            /\ processing' = processing \cup {Head(queue)}
            /\ dirty' = dirty \ {Head(queue)}
            /\ cur' = Head(queue)
            /\ pcF' = "got"
            /\ UNCHANGED <<failures, shuttingDown, panic>>
  /\ UNCHANGED <<EventAPILimit, count, objList, tickN, calls, serialized, flushBT, ghostVars,
                 aggVars, lifeVars>>

\* A variant of the loop's exit test that never looks at the batch limit.
batchCompleteNoLimit(cnt, len, limit) == cnt = 0

\* count == 0 || len(objList) >= pw.Bag.EventAPILimit
batchComplete(cnt, len, limit) == cnt = 0 \/ len >= limit

\* A variant that keeps only the record appended last.
appendRecordReplacing(list, item) == <<item>>

\* objList = append(objList, *jobRecord)
appendRecord(list, item) == Append(list, item)

\* A variant of getNextQueueItem that never calls Done.
doneKeepsProcessing(item) == processing

\* WQ.Done(item)
doneProcessing(item) == processing \ {item}

\* The rest of getNextQueueItem (Forget, then the deferred Done, which
\* queues the item again when it was added meanwhile) and of the loop body:
\* count is decremented, the record appended and the loop's exit tested.
FlushDone ==
  /\ ~panicked
  /\ pcF = "got"
  /\ failures' = failures \ {cur}
  /\ processing' = doneProcessing(cur)
  /\ queue' = IF cur \in dirty THEN Append(queue, cur) ELSE queue
  /\ enq' = IF cur \in dirty THEN Bump(enq, cur) ELSE enq
  /\ count' = count - 1
  /\ objList' = appendRecord(objList, cur)
  /\ cur' = NoItem
  /\ pcF' = IF batchComplete(count - 1, Len(appendRecord(objList, cur)), EventAPILimit)
              THEN "post" ELSE "drain"
  /\ UNCHANGED <<dirty, shuttingDown, sent, dropped, EventAPILimit, tickN, calls, serialized,
                 flushBT, aggVars, lifeVars, panic>>

Call(op, ret) == [op |-> op, ret |-> ret]

\* A variant that creates the schema whatever SchemaExists answered.
postJobRecordsAlwaysCreates(errData, errSchema, exists, createErr, postErr) ==
  IF ~errData /\ ~errSchema
    THEN <<Call("SchemaExists", IF exists THEN "true" ELSE "false"),
           Call("CreateSchema", IF createErr THEN "err" ELSE "ok"),
           Call("PostAppDEvents", IF postErr THEN "err" ELSE "ok")>>
    ELSE <<>>

\* A variant that posts although a json.Marshal failed.
postJobRecordsIgnoresMarshal(errData, errSchema, exists, createErr, postErr) ==
  <<Call("SchemaExists", IF exists THEN "true" ELSE "false")>>
    \o (IF exists THEN <<>>
        ELSE <<Call("CreateSchema", IF createErr THEN "err" ELSE "ok")>>)
    \o <<Call("PostAppDEvents", IF postErr THEN "err" ELSE "ok")>>

\* A variant that gives up the post when CreateSchema fails.
postJobRecordsStopsOnCreateErr(errData, errSchema, exists, createErr, postErr) ==
  IF ~errData /\ ~errSchema
    THEN <<Call("SchemaExists", IF exists THEN "true" ELSE "false")>>
           \o (IF exists THEN <<>>
               ELSE <<Call("CreateSchema", IF createErr THEN "err" ELSE "ok")>>)
           \o (IF ~exists /\ createErr THEN <<>>
               ELSE <<Call("PostAppDEvents", IF postErr THEN "err" ELSE "ok")>>)
    ELSE <<>>

\* The Event Sink calls postJobRecords makes, each with what it returned:
\* none when a json.Marshal fails; CreateSchema only when SchemaExists
\* answered false; PostAppDEvents whatever CreateSchema returned.
postJobRecords(errData, errSchema, exists, createErr, postErr) ==
  IF ~errData /\ ~errSchema
    THEN <<Call("SchemaExists", IF exists THEN "true" ELSE "false")>>
           \o (IF exists THEN <<>>
               ELSE <<Call("CreateSchema", IF createErr THEN "err" ELSE "ok")>>)
           \o <<Call("PostAppDEvents", IF postErr THEN "err" ELSE "ok")>>
    ELSE <<>>

\* postJobRecords(&objList) and the return that follows it, which leaves
\* flushQueue before StopBT.
FlushPost ==
  /\ ~panicked
  /\ pcF = "post"
  /\ \E errData \in BOOLEAN, errSchema \in BOOLEAN, exists \in BOOLEAN,
        createErr \in BOOLEAN, postErr \in BOOLEAN :
       /\ calls' = postJobRecords(errData, errSchema, exists, createErr, postErr)
       /\ serialized' = IF ~errData /\ ~errSchema THEN "ok" ELSE "failed"
       /\ IF ~errData /\ ~errSchema
            THEN /\ sent' = [i \in Items |-> sent[i] + Occurrences(objList, i)]
                 /\ UNCHANGED dropped
            ELSE /\ dropped' = [i \in Items |-> dropped[i] + Occurrences(objList, i)]
                 /\ UNCHANGED sent
  /\ pcF' = "idle"
  /\ UNCHANGED <<EventAPILimit, count, objList, cur, tickN, flushBT, enq, wqVars,
                 aggVars, lifeVars, panic>>

\* case <-stop of eventQueueTicker
FlushExit ==
  /\ ~panicked
  /\ pcF = "idle"
  /\ stopped
  /\ pcF' = "exited"
  /\ UNCHANGED <<EventAPILimit, count, objList, cur, tickN, calls, serialized, flushBT, wqVars,
                 ghostVars, aggVars, lifeVars, panic>>

\* ------------------------------------------------------------ lifecycle
\* initJobInformer: nil when batch.NewForConfig fails. NewJobsWorker drops
\* the result and returns the worker either way.
initJobInformer(clientOK) == IF clientOK THEN "created" ELSE "nil"

\* obj.(*v1.Node) of onNewJob, onDeleteJob and onUpdateJob
onNewJobPanics(kind) == kind # "Node"
onDeleteJobPanics(kind) == kind # "Node"
onUpdateJobPanics(kind) == kind # "Node"

notifierPanics(ev, kind) ==
  CASE ev = "add" -> onNewJobPanics(kind)
    [] ev = "delete" -> onDeleteJobPanics(kind)
    [] ev = "update" -> onUpdateJobPanics(kind)

\* The stop signal fires.
Stop ==
  /\ ~panicked
  /\ ~stopped
  /\ stopped' = TRUE
  /\ UNCHANGED <<informer, pcObserve, watchTask, metricsTask, synced, wg, notes,
                 aggVars, wqVars, ghostVars, flushVars, panic>>

\* Observe up to go pw.informer.Run(stopCh). Calling Run on the nil informer
\* panics; the deferred ShutDown and wg.Done run before the process ends.
ObserveCall ==
  /\ ~panicked
  /\ pcObserve = "notcalled"
  /\ IF informer = "nil"
       THEN /\ panic' = "Observe"
            /\ pcObserve' = "panicked"
            /\ shuttingDown' = TRUE
            /\ UNCHANGED <<watchTask, wg>>
       ELSE /\ watchTask' = "running"
            /\ pcObserve' = "syncing"
            /\ wg' = wg + 1
            /\ UNCHANGED <<panic, shuttingDown>>
  /\ UNCHANGED <<informer, metricsTask, synced, stopped, notes, queue, dirty,
                 processing, failures, aggVars, ghostVars, flushVars>>

\* The informer finishes its initial list.
InformerSync ==
  /\ ~panicked
  /\ watchTask = "running"
  /\ ~synced
  /\ synced' = TRUE
  /\ UNCHANGED <<informer, pcObserve, watchTask, metricsTask, stopped, wg, notes,
                 aggVars, wqVars, ghostVars, flushVars, panic>>

\* The objects the watch loop is fed with: what the ListFunc lists (Jobs), and
\* an object of the type the handlers expect.
WatchedObjects == {Job("a", 1, 0, 0, 0, 0, {}), NodeObj}

\* The informer stores a change and queues its notification.
Deliver(ev, obj) ==
  /\ ~panicked
  /\ watchTask = "running"
  /\ Len(notes) < MaxNotes
  /\ CASE ev = "add" ->
            /\ BagCardinality(store) < MaxJobs
            /\ store' = store (+) SetToBag({obj})
       [] ev = "update" ->
            /\ BagIn(obj, store)
            /\ store' = store
       [] ev = "delete" ->
            /\ BagIn(obj, store)
            /\ store' = store (-) SetToBag({obj})
  /\ snapshotFresh' = (snapshotFresh /\ ev = "update")
  /\ schemas' = IF ev = "update" THEN schemas ELSE {}
  /\ notes' = Append(notes, [ev |-> ev, kind |-> obj.kind])
  /\ UNCHANGED <<SummaryMap, posted, metricsBT, informer, pcObserve, watchTask,
                 metricsTask, synced, stopped, wg, wqVars, ghostVars, flushVars,
                 panic>>

\* The informer calls the handler of its oldest queued notification.
Notify ==
  /\ ~panicked
  /\ notes # <<>>
  /\ panic' = IF notifierPanics(Head(notes).ev, Head(notes).kind)
                THEN "notifier" ELSE "none"
  /\ notes' = Tail(notes)
  /\ UNCHANGED <<informer, pcObserve, watchTask, metricsTask, synced, stopped, wg,
                 aggVars, wqVars, ghostVars, flushVars>>

\* A variant of the wait that returns at once.
waitForCacheSyncNoWait == TRUE

\* cache.WaitForCacheSync(stopCh, pw.HasSynced) has returned: the cache has
\* synced, or the stop signal fired first.
waitForCacheSyncReturns == synced \/ stopped

\* Observe from WaitForCacheSync to the start of both workers. The wait ends
\* when the cache has synced or the stop signal fired; its result is only
\* logged.
ObserveStartWorkers ==
  /\ ~panicked
  /\ pcObserve = "syncing"
  /\ waitForCacheSyncReturns
  /\ metricsTask' = "running"
  /\ pcF' = "idle"
  /\ wg' = wg + 2
  /\ pcObserve' = "waiting"
  /\ UNCHANGED <<informer, watchTask, synced, stopped, notes, EventAPILimit, count,
                 objList, cur, tickN, calls, serialized, flushBT, aggVars, wqVars, ghostVars,
                 panic>>

\* Observe returns on <-stopCh: the deferred WQ.ShutDown() and wg.Done().
ObserveReturn ==
  /\ ~panicked
  /\ pcObserve = "waiting"
  /\ stopped
  /\ shuttingDown' = TRUE
  /\ wg' = wg - 1
  /\ pcObserve' = "returned"
  /\ UNCHANGED <<informer, watchTask, metricsTask, synced, stopped, notes, queue,
                 dirty, processing, failures, aggVars, ghostVars, flushVars,
                 panic>>

\* informer.Run returns on the stop signal.
WatchExit ==
  /\ ~panicked
  /\ watchTask = "running"
  /\ stopped
  /\ watchTask' = "exited"
  /\ UNCHANGED <<informer, pcObserve, metricsTask, synced, stopped, wg, notes,
                 aggVars, wqVars, ghostVars, flushVars, panic>>

\* case <-stop of appMetricTicker
MetricsExit ==
  /\ ~panicked
  /\ metricsTask = "running"
  /\ stopped
  /\ metricsTask' = "exited"
  /\ UNCHANGED <<informer, pcObserve, watchTask, synced, stopped, wg, notes,
                 aggVars, wqVars, ghostVars, flushVars, panic>>

\* ------------------------------------------------------- specifications
vars == <<aggVars, wqVars, ghostVars, flushVars, lifeVars, panic>>

\* The fields NewJobsWorker sets, whatever initJobInformer returned.
Constructed ==
  /\ store = EmptyBag
  /\ SummaryMap = <<>>
  /\ posted = {}
  /\ metricsBT = "none"
  /\ snapshotFresh = FALSE
  /\ schemas = {}
  /\ panic = "none"
  /\ queue = <<>>
  /\ dirty = {}
  /\ processing = {}
  /\ failures = {}
  /\ shuttingDown = FALSE
  /\ count = 0
  /\ objList = <<>>
  /\ cur = NoItem
  /\ tickN = 0
  /\ calls = <<>>
  /\ serialized = "none"
  /\ flushBT = "none"
  /\ enq = [i \in Items |-> 0]
  /\ sent = [i \in Items |-> 0]
  /\ dropped = [i \in Items |-> 0]
  /\ stopped = FALSE
  /\ notes = <<>>

\* The worker as NewJobsWorker returns it, before Observe is called: the
\* caller has counted Observe into the WaitGroup.
Init ==
  /\ Constructed
  /\ EventAPILimit \in Limits
  /\ \E clientOK \in BOOLEAN : informer = initJobInformer(clientOK)
  /\ pcObserve = "notcalled"
  /\ watchTask = "none"
  /\ metricsTask = "none"
  /\ pcF = "none"
  /\ synced = FALSE
  /\ wg = 1

\* The worker as the source runs it. Nothing in the source adds to the queue,
\* so every flush tick finds it empty and the drain steps are never enabled;
\* SpecQueue runs them with producers.
Next ==
  \/ ObserveCall
  \/ InformerSync
  \/ \E ev \in {"add", "update", "delete"}, obj \in WatchedObjects : Deliver(ev, obj)
  \/ Notify
  \/ ObserveStartWorkers
  \/ Stop
  \/ ObserveReturn
  \/ WatchExit
  \/ MetricsExit
  \/ FlushExit
  \/ MetricsTick
  \/ FlushTick

Spec == Init /\ [][Next]_vars

\* Observe is called and every task that can take a step of its own code
\* eventually takes it; the stop signal, the watched changes and the tickers
\* are left to the environment.
SpecFair ==
  /\ Spec
  /\ WF_vars(ObserveCall)
  /\ WF_vars(InformerSync)
  /\ WF_vars(Notify)
  /\ WF_vars(ObserveStartWorkers)
  /\ WF_vars(ObserveReturn)
  /\ WF_vars(WatchExit)
  /\ WF_vars(MetricsExit)
  /\ WF_vars(FlushExit)

\* The worker once Observe has started both workers on a synced cache.
Running ==
  /\ Constructed
  /\ informer = "created"
  /\ pcObserve = "waiting"
  /\ watchTask = "running"
  /\ metricsTask = "running"
  /\ pcF = "idle"
  /\ synced = TRUE
  /\ wg = 4

\* The aggregation pass over every snapshot the store can hold.
InitAgg == Running /\ EventAPILimit = MaxLimit

NextAgg ==
  \/ \E obj \in Jobs : StoreAdd(obj)
  \/ \E obj \in Jobs : StoreDelete(obj)
  \/ MetricsTick

SpecAgg == InitAgg /\ [][NextAgg]_vars

\* The queue and its flush worker, with producers adding items, for every
\* batch limit, until the stop signal.
InitQueue == Running /\ EventAPILimit \in Limits

NextQueue ==
  \/ \E item \in Items, limited \in BOOLEAN : Add(item, limited)
  \/ FlushTick
  \/ FlushGet
  \/ FlushDone
  \/ FlushPost
  \/ Stop
  \/ ObserveReturn
  \/ FlushExit

SpecQueue == InitQueue /\ [][NextQueue]_vars

\* The ticker keeps firing and the flush worker keeps running its steps.
SpecQueueFair ==
  /\ SpecQueue
  /\ WF_vars(FlushTick)
  /\ WF_vars(FlushGet)
  /\ WF_vars(FlushDone)
  /\ WF_vars(FlushPost)

\* The same with a second consumer on the queue.
NextShared == NextQueue \/ ExternalGet

SpecShared == InitQueue /\ [][NextShared]_vars

\* ------------------------------------------------------------------ claims
\* What one object contributes to a counter of a bucket it belongs to.
ObjValue(j, fld, now) ==
  CASE fld = "JobCount" -> 1
    [] fld = "ActiveCount" -> j.active
    [] fld = "SuccessCount" -> j.success
    [] fld = "FailedCount" -> j.failed
    [] fld = "Duration" -> Int64Of(processObject(j, now).Duration, TicksPerSecond)

RECURSIVE Total(_, _, _)
Total(b, fld, now) ==
  IF b = EmptyBag
    THEN 0
    ELSE LET o == CHOOSE x \in BagToSet(b) : TRUE
         IN  ObjValue(o, fld, now) + Total(b (-) SetToBag({o}), fld, now)

InNamespace(b, ns) ==
  LET keep == {o \in BagToSet(b) : o.ns = ns}
  IN  [o \in keep |-> b[o]]

NamespacesOf(b) == {o.ns : o \in BagToSet(b)}

\* A pass has completed on the snapshot the store still holds.
PassDone == snapshotFresh /\ ~panicked

RECURSIVE SumBuckets(_, _, _)
SumBuckets(m, keys, fld) ==
  IF keys = {}
    THEN 0
    ELSE LET k == CHOOSE x \in keys : TRUE
         IN  m[k][fld] + SumBuckets(m, keys \ {k}, fld)

\* C1 (as claimed): after a pass over a non-empty snapshot S the global bucket
\* holds JobCount = |S| and the sums of the counters over S, every namespace
\* of S has a bucket holding the count and sums of its own objects, and these
\* are the values of the FlatMetrics submitted (now: the time the pass read).
C1_SummaryHoldsSums ==
  (PassDone /\ store # EmptyBag) =>
    /\ ALL \in DOMAIN SummaryMap
    /\ \E now \in 0..MaxTime :
         /\ \A fld \in MetricFields : SummaryMap[ALL][fld] = Total(store, fld, now)
         /\ \A ns \in NamespacesOf(store) \ {ALL} :
              /\ ns \in DOMAIN SummaryMap
              /\ \A fld \in MetricFields :
                   SummaryMap[ns][fld] = Total(InNamespace(store, ns), fld, now)
    /\ \A k \in DOMAIN SummaryMap : \A fld \in MetricFields :
         NewAppDMetric(fld, SummaryMap[k][fld], SummaryMap[k].Path) \in posted

\* C5 (as claimed): a pass over a snapshot holding an object that lacks an
\* optional field completes: no panic, the metrics are submitted and the
\* trace token is ended.
C5_AbsentFieldTolerated ==
  (snapshotFresh /\ \E j \in BagToSet(store) : j.absent # {}) =>
    (~panicked /\ metricsBT = "closed")

\* C7: after every pass the namespace buckets add up to the global bucket, in
\* JobCount, ActiveCount, SuccessCount, FailedCount and Duration.
C7_NamespacesSumToGlobal ==
  PassDone =>
    \A fld \in MetricFields :
      SumBuckets(SummaryMap, DOMAIN SummaryMap \ {ALL}, fld)
        = IF ALL \in DOMAIN SummaryMap THEN SummaryMap[ALL][fld] ELSE 0

C7_Witness ==
  /\ PassDone
  /\ Cardinality(NamespacesOf(store) \ {ALL}) >= 2
  /\ \E j \in BagToSet(store) : j.active > 0
  /\ Cardinality(DOMAIN SummaryMap) >= 3

\* C8 (as claimed): after a pass over an empty snapshot the global bucket is
\* in the summary map with all counters zero and its FlatMetrics are submitted.
C8_EmptySnapshotHasGlobal ==
  (PassDone /\ store = EmptyBag) =>
    /\ ALL \in DOMAIN SummaryMap
    /\ \A fld \in MetricFields : SummaryMap[ALL][fld] = 0
    /\ \A fld \in MetricFields : NewAppDMetric(fld, 0, ALL) \in posted

\* C8 (amended): after a pass over an empty snapshot the summary map is empty
\* (no bucket, not even the global one) and the list submitted is empty; the
\* pass still submits and ends its trace token.
C8_EmptySnapshotEmptyMap ==
  (PassDone /\ store = EmptyBag) =>
    (SummaryMap = <<>> /\ posted = {} /\ metricsBT = "closed")

C8_Witness == PassDone /\ store = EmptyBag /\ metricsBT = "closed"

\* A flush tick has run to its return.
TickEnded == pcF = "idle" /\ flushBT = "open"

\* A flush tick is between its first Get and the return of postJobRecords.
TickRunning == pcF \in {"drain", "got", "post"}

Min(a, b) == IF a <= b THEN a ELSE b
Max(a, b) == IF a >= b THEN a ELSE b

CallsOf(cs, op) == {k \in 1..Len(cs) : cs[k].op = op}
Posts(cs) == Cardinality(CallsOf(cs, "PostAppDEvents"))

\* C2 (as claimed): a tick that observed n > 0 items dequeues exactly
\* min(n, EventAPILimit) of them and, serialization succeeding, hands them to
\* post-events in one batch, for every limit; a tick that observed n = 0
\* dequeues nothing and makes no Event Sink call.
C2_DrainsMinOfLenAndLimit ==
  TickEnded =>
    IF tickN > 0
      THEN calls # <<>> =>
             (Len(objList) = Min(tickN, EventAPILimit) /\ Posts(calls) = 1)
      ELSE objList = <<>> /\ calls = <<>>

\* C2 (amended): the same with min(n, max(EventAPILimit, 1)): a limit of zero
\* or less still dequeues and posts one item per tick.
C2_DrainsMinOfLenAndLimitAtLeastOne ==
  TickEnded =>
    IF tickN > 0
      THEN /\ Len(objList) = Min(tickN, Max(EventAPILimit, 1))
           /\ calls # <<>> => Posts(calls) = 1
      ELSE objList = <<>> /\ calls = <<>>

C2_Witness ==
  /\ TickEnded
  /\ EventAPILimit >= 1
  /\ tickN > EventAPILimit
  /\ Len(objList) = EventAPILimit
  /\ Posts(calls) = 1
  /\ queue # <<>>

\* C3 (as claimed): whatever object a notification carries, the notifier
\* returns and the process is not ended by a panic in it.
C3_NotifierNeverCrashes == panic # "notifier"

\* C4 (as claimed): Observe is never past its start with an informer that was
\* never created.
C4_NoObserveOnNilInformer == ~(pcObserve # "notcalled" /\ informer = "nil")

\* C6 (as claimed): when Get reports the shutdown during a drain, the flush
\* worker is not ended by a panic in getNextQueueItem.
C6_ShutdownMidDrainSurvived == panic # "getNextQueueItem"

\* The copies of item i the running tick holds.
InHand(i) ==
  IF TickRunning
    THEN Occurrences(objList, i) + (IF cur = i THEN 1 ELSE 0)
    ELSE 0

\* Every entry of an item into the queue is accounted for: still queued, held
\* by the running tick, in a batch handed to post-events, or in a batch that
\* failed to serialize; and no batch holds an item twice.
NoLossNoDuplicate ==
  \A i \in Items :
    /\ enq[i] = Occurrences(queue, i) + InHand(i) + sent[i] + dropped[i]
    /\ Occurrences(objList, i) <= 1

\* C9: every item added is dequeued and handed to post-events in exactly one
\* batch (a batch that fails to serialize aside): none is lost, none is in two
\* batches, what a tick leaves behind stays queued, and while the stop signal
\* has not fired a queued item is eventually dequeued and a dequeued item's
\* tick eventually ends.
C9_EveryItemInOneBatch ==
  /\ []NoLossNoDuplicate
  /\ \A i \in Items :
       (Occurrences(queue, i) > 0) ~> (Occurrences(queue, i) = 0 \/ stopped)
  /\ \A i \in Items : (InHand(i) > 0) ~> (InHand(i) = 0)

C9_Witness ==
  /\ EventAPILimit = 1
  /\ TickEnded
  /\ queue = <<>>
  /\ \A i \in Items : enq[i] = 1 /\ sent[i] = 1

\* C10: an item the flush worker dequeued is Done and forgotten when
\* getNextQueueItem returns, so none is left in processing once the tick
\* moves on, shutdown or not, and the queue hands an item to the worker no
\* more often than the item entered the queue.
C10_DequeuedIsDoneAndForgotten ==
  /\ [](pcF # "got" => processing = {})
  /\ [](\A i \in Items : InHand(i) + sent[i] + dropped[i] <= enq[i])
  /\ [][(pcF = "got" /\ pcF' # "got") =>
          (cur \notin processing' /\ cur \notin failures')]_vars

C10_Witness ==
  /\ shuttingDown
  /\ pcF = "drain"
  /\ Len(objList) >= 1
  /\ queue # <<>>
  /\ processing = {}

\* C11: in a flush that reaches the Event Sink, when SchemaExists answered
\* false CreateSchema is called exactly once, after it and before
\* PostAppDEvents; when it answered true CreateSchema is not called in that
\* flush.
C11_CreateSchemaOnlyWhenMissing ==
  \A k \in CallsOf(calls, "SchemaExists") :
    /\ CallsOf(calls, "PostAppDEvents") # {}
    /\ calls[k].ret = "false" =>
         /\ Cardinality(CallsOf(calls, "CreateSchema")) = 1
         /\ \A c \in CallsOf(calls, "CreateSchema"),
               p \in CallsOf(calls, "PostAppDEvents") : k < c /\ c < p
    /\ calls[k].ret = "true" => CallsOf(calls, "CreateSchema") = {}

C11_Witness ==
  /\ TickEnded
  /\ Len(objList) >= 1
  /\ Call("SchemaExists", "false") \in Range(calls)
  /\ CallsOf(calls, "CreateSchema") # {}
  /\ Posts(calls) = 1

\* C12: when serializing the batch or the schema definition fails, the flush
\* makes no SchemaExists, CreateSchema or PostAppDEvents call and the dequeued
\* batch is dropped: the failing step puts nothing back into the queue, and
\* every entry of an item stays accounted for as queued, in hand, sent or
\* dropped, so that no later tick sends a dropped entry.
C12_MarshalFailureDropsBatch ==
  /\ [](serialized = "failed" => calls = <<>>)
  /\ [][(pcF = "post" /\ serialized' = "failed") =>
          /\ queue' = queue /\ dirty' = dirty /\ processing' = processing
          /\ sent' = sent
          /\ \A i \in Items : dropped'[i] = dropped[i] + Occurrences(objList, i)]_vars
  /\ []NoLossNoDuplicate

\* A batch failed to serialize in an earlier tick and a later tick has posted.
C12_Witness ==
  /\ TickEnded
  /\ serialized = "ok"
  /\ Posts(calls) = 1
  /\ \E i \in Items : enq[i] = 1 /\ dropped[i] = 1 /\ sent[i] = 0

\* Observe has started the two ticker loops, or one of them has run a tick.
LoopsStarted ==
  \/ metricsTask # "none"
  \/ pcF # "none"
  \/ metricsBT # "none"
  \/ flushBT # "none"

\* C13 (as claimed): no aggregation pass and no flush tick runs, and neither
\* loop is started, before the cache has reported synced, also when the stop
\* signal fires before the cache has synced.
C13_LoopsOnlyAfterSync == LoopsStarted => synced

\* C13 (amended): the loops are started, and a pass or a flush tick runs, only
\* once the cache has synced or the stop signal has fired.
C13_LoopsOnlyAfterSyncOrStop == LoopsStarted => (synced \/ stopped)

\* The stop signal fired before the cache synced and both loops were started.
C13_Witness ==
  /\ pcObserve = "waiting"
  /\ metricsTask = "running"
  /\ pcF = "idle"
  /\ stopped
  /\ ~synced

\* C14 (as claimed): once the stop signal has fired, the watch loop, the
\* metrics ticker loop and the flush ticker loop, when running, each
\* eventually exit (a ticker loop stops its ticker as it exits), and the Event
\* Queue of a running Observe is shut down.
C14_AllLoopsExitAfterStop ==
  /\ (stopped /\ watchTask = "running") ~> (watchTask = "exited")
  /\ (stopped /\ metricsTask = "running") ~> (metricsTask = "exited")
  /\ (stopped /\ pcF \notin {"none", "exited"}) ~> (pcF = "exited")
  /\ (stopped /\ pcObserve \in {"syncing", "waiting"}) ~> shuttingDown

\* C15: a pass run again on the snapshot the last pass listed (whatever the
\* current time of either pass) leaves the summary map and the posted
\* FlatMetric triples as they were; and the map a pass leaves holds buckets of
\* the listed snapshot only, nothing carried over from an earlier pass.
C15_PassIsIdempotent ==
  /\ [][(snapshotFresh /\ snapshotFresh' /\ store' = store /\ ~panicked') =>
          (posted' = posted /\ SummaryMap' = SummaryMap)]_vars
  /\ [](PassDone => DOMAIN SummaryMap \subseteq ({ALL} \cup NamespacesOf(store)))

C15_Witness ==
  /\ PassDone
  /\ BagCardinality(store) = MaxJobs
  /\ Cardinality(DOMAIN SummaryMap) >= 2
  /\ posted # {}

\* C16: the Duration of every JobSchema a pass builds is completion - start
\* when the job has a completion time, and the pass's current time - start
\* when it has none (in ticks: TicksPerSecond times the seconds).
C16_DurationFromCompletionOrNow ==
  \A s \in schemas :
    s.rec.Duration = IF s.job.completion # NoTime
                       THEN s.job.completion - s.job.start
                       ELSE s.now - s.job.start

\* One pass built the record of a completed job, at a time other than its
\* completion, and the record of a job still running.
C16_Witness ==
  /\ PassDone
  /\ \E s \in schemas :
       /\ s.job.completion # NoTime
       /\ s.job.completion # s.now
       /\ s.rec.Duration > 0
  /\ \E s \in schemas : s.job.completion = NoTime /\ s.rec.Duration > 0

\* An Event Sink call of the current tick failed (SchemaExists reports a
\* failure as false).
SinkFailed ==
  \E k \in 1..Len(calls) : calls[k].ret \in {"err", "false"}

\* C17: a failure of SchemaExists, CreateSchema or PostAppDEvents does not stop
\* the flush worker: postJobRecords returns to an idle worker without a panic
\* and puts nothing back into the queue, PostAppDEvents is still called after
\* a failed CreateSchema, and the next tick can start on whatever the queue
\* then holds.
C17_SinkFailureKeepsWorker ==
  /\ [][(pcF = "post" /\ pcF' # "post") =>
          /\ pcF' = "idle" /\ ~panicked'
          /\ queue' = queue /\ dirty' = dirty /\ processing' = processing]_vars
  /\ [](\A c \in CallsOf(calls, "CreateSchema") :
          calls[c].ret = "err" =>
            \E p \in CallsOf(calls, "PostAppDEvents") : c < p)
  /\ []((SinkFailed /\ ~TickRunning /\ pcF # "exited") => ENABLED FlushTick)

\* CreateSchema and PostAppDEvents both failed and the tick has returned with
\* items left in the queue.
C17_Witness ==
  /\ TickEnded
  /\ Call("CreateSchema", "err") \in Range(calls)
  /\ Call("PostAppDEvents", "err") \in Range(calls)
  /\ queue # <<>>

\* C18 (as claimed): a flush tick that started its trace token with StartBT
\* has ended it with StopBT when the tick returns, on every path: no token is
\* open while the worker waits for its next tick or has exited.
C18_TickEndsItsToken == pcF \in {"idle", "exited"} => flushBT # "open"

\* Observe has returned and its three background tasks have ended.
AllExited ==
  /\ pcObserve = "returned"
  /\ watchTask = "exited"
  /\ metricsTask = "exited"
  /\ pcF = "exited"

\* C19 (as claimed): each wg.Add(1) Observe performs for a background task is
\* matched by a wg.Done() when the task ends: once Observe (whose own deferred
\* Done matches the Add of its caller) and the three tasks have ended, the
\* counter is 0 and a caller in wg.Wait() is released.
C19_WaitGroupBalanced == AllExited => wg = 0

\* C20 (as claimed): after a pass over a snapshot that holds objects, the
\* summary map has the global bucket and, apart from it, one bucket for each
\* namespace of the snapshot, also for a namespace named as the global key.
C20_GlobalAndNamespaceDistinct ==
  (PassDone /\ store # EmptyBag) =>
    Cardinality(DOMAIN SummaryMap) = Cardinality(NamespacesOf(store)) + 1

====
